---------------------------- MODULE Spec2Model ----------------------------
(***************************************************************************)
(* A model of id3_tree.py: the ID3 tree builder (id3), its helpers         *)
(* (find_entropy, find_information_gain, make_split), the predictor        *)
(* (predict_decision) and the evaluator (find_accuracy), driven as the     *)
(* main block drives them: build the tree from the training table, then    *)
(* score the training table, then score the testing table.                 *)
(*                                                                         *)
(* The recursion of id3 is an explicit call stack: one frame per active    *)
(* call, one step per iteration of the loop over the split's keys.         *)
(*                                                                         *)
(* Cell values are the strings "0", "1" of the CSV file, written 0, 1: the *)
(* order of one-character digit strings is the order of the digits.        *)
(*                                                                         *)
(* Entropies are kept exactly.  Every quantity find_entropy and            *)
(* find_information_gain compute over a table of N rows has the form       *)
(* log2(num/den)/N, and is held as the reduced fraction num/den with the   *)
(* scale N.  The two things the program does with them, the test `== 0`    *)
(* and the comparison inside max(...), are decided on the fractions.       *)
(***************************************************************************)
EXTENDS Integers, Sequences, FiniteSets, TLC

VARIABLES pc, train, test, stack, dt, tr_ability, te_ability, counts, err

vars == <<pc, train, test, stack, dt, tr_ability, te_ability, counts, err>>

(* Bounds of the model: the rows of a training table over the columns of   *)
(* Schema, and the feature columns and rows of a training table of the     *)
(* specification with more columns.                                        *)
MaxRows == 4
MaxFeatures == 2
DeepRows == 2

(* Column names; the decision is the last column of the file. *)
FeatureNames == <<"F1", "F2", "F3", "F4">>
Schema == <<"F1", "F2">>
Target == "D"
Vals == {0, 1}

(* predict_decision's `return None`. *)
None == -1

---------------------------------------------------------------------------
(* Tables: an ordered column list and an ordered row list. *)

Columns(nf) == SubSeq(FeatureNames, 1, nf)

Range(q) == {q[i] : i \in 1..Len(q)}

RowSet(cols) == [Range(cols) \cup {Target} -> Vals]

SeqsUpTo(S, n) == UNION {[1..k -> S] : k \in 0..n}

Tables(cols, n) == {[cols |-> cols, rows |-> r] : r \in SeqsUpTo(RowSet(cols), n)}

Column(df, c) == [i \in 1..Len(df.rows) |-> df.rows[i][c]]

RECURSIVE Filter(_, _, _)
Filter(rows, c, v) ==
    IF rows = <<>> THEN <<>>
    ELSE IF Head(rows)[c] = v THEN <<Head(rows)>> \o Filter(Tail(rows), c, v)
         ELSE Filter(Tail(rows), c, v)

Count(t, v) == Cardinality({i \in 1..Len(t) : t[i] = v})

RECURSIVE SortedSeq(_)
SortedSeq(S) ==
    IF S = {} THEN <<>>
    ELSE LET m == CHOOSE x \in S : \A y \in S : x <= y
         IN <<m>> \o SortedSeq(S \ {m})

(* np.unique(t, return_counts=True): the distinct values, sorted. *)
Unique(t) == SortedSeq(Range(t))

---------------------------------------------------------------------------
(* Exact arithmetic on log2(num/den)/scale. *)

RECURSIVE Gcd(_, _)
Gcd(a, b) == IF b = 0 THEN a ELSE Gcd(b, a % b)

RECURSIVE Pow(_, _)
Pow(b, e) == IF e = 0 THEN 1 ELSE b * Pow(b, e - 1)

Reduce(n, d) == LET g == Gcd(n, d) IN [num |-> n \div g, den |-> d \div g]

(* (a.num/a.den) * (b.num/b.den), reduced before multiplying. *)
RMul(a, b) ==
    LET g1 == Gcd(a.num, b.den)
        g2 == Gcd(b.num, a.den)
    IN [num |-> (a.num \div g1) * (b.num \div g2),
        den |-> (a.den \div g2) * (b.den \div g1)]

RDiv(a, b) == RMul(a, [num |-> b.den, den |-> b.num])

(* a/b < c/d for positive integers, by continued fractions. *)
RECURSIVE RLess(_, _, _, _)
RLess(a, b, c, d) ==
    LET q1 == a \div b
        q2 == c \div d
        r1 == a % b
        r2 == c % d
    IN IF q1 # q2 THEN q1 < q2
       ELSE IF r2 = 0 THEN FALSE
       ELSE IF r1 = 0 THEN TRUE
       ELSE RLess(d, r2, b, r1)

Less(g, h) == RLess(g.num, g.den, h.num, h.den)

IsZero(h) == h.num = h.den

---------------------------------------------------------------------------
(* find_entropy: h = 0; for each distinct value x, h += -px * log2(px)     *)
(* with px = n[x]/sum(n).  The term is log2((N/nx)^nx)/N.  On an empty     *)
(* sequence the loop body never runs and the function returns h = 0.       *)

Term(nx, N) == Reduce(Pow(N, nx), Pow(nx, nx))

RECURSIVE EntropyLoop(_, _, _, _)
EntropyLoop(t, v, x, h) ==
    IF x > Len(v) THEN h
    ELSE EntropyLoop(t, v, x + 1, RMul(h, Term(Count(t, v[x]), Len(t))))

FindEntropy(t) ==
    LET h == EntropyLoop(t, Unique(t), 1, [num |-> 1, den |-> 1])
    IN [num |-> h.num, den |-> h.den, scale |-> Len(t)]

(* df.where(df[s] == v).dropna() *)
DfBranch(df, a, v) == [cols |-> df.cols, rows |-> Filter(df.rows, a, v)]

(* pt * find_entropy(split) with pt = p/q. *)
Times(p, q, h) == [num |-> h.num, den |-> h.den, scale |-> (q * h.scale) \div p]

(* find_information_gain: total_h - sum over the values of pt * H(split). *)
RECURSIVE SplitLoop(_, _, _, _, _)
SplitLoop(df, s, v, x, split_h) ==
    IF x > Len(v) THEN split_h
    ELSE LET n     == Count(Column(df, s), v[x])
             split == Column(DfBranch(df, s, v[x]), Target)
             term  == Times(n, Len(df.rows), FindEntropy(split))
         IN SplitLoop(df, s, v, x + 1, RMul(split_h, term))

FindInformationGain(df, s) ==
    LET total_h == FindEntropy(Column(df, Target))
        split_h == SplitLoop(df, s, Unique(Column(df, s)), 1, [num |-> 1, den |-> 1])
        g       == RDiv(total_h, split_h)
    IN [num |-> g.num, den |-> g.den, scale |-> Len(df.rows)]

(* A max that lets a later key of equal value replace the one it holds. *)
RECURSIVE MaxLoopLast(_, _, _, _)
MaxLoopLast(attr, ig, k, best) ==
    IF k > Len(attr) THEN best
    ELSE MaxLoopLast(attr, ig, k + 1, IF Less(ig[attr[k]], ig[best]) THEN best ELSE attr[k])

(* max(ig, key=...): the first key, in insertion order, of maximal value. *)
RECURSIVE MaxLoop(_, _, _, _)
MaxLoop(attr, ig, k, best) ==
    IF k > Len(attr) THEN best
    ELSE MaxLoop(attr, ig, k + 1, IF Less(ig[best], ig[attr[k]]) THEN attr[k] ELSE best)

(* min in the place of max. *)
RECURSIVE MinLoop(_, _, _, _)
MinLoop(attr, ig, k, best) ==
    IF k > Len(attr) THEN best
    ELSE MinLoop(attr, ig, k + 1, IF Less(ig[attr[k]], ig[best]) THEN attr[k] ELSE best)

HighestIGMin(attr, ig) == MinLoop(attr, ig, 2, attr[1])

HighestIG(attr, ig) == MaxLoop(attr, ig, 2, attr[1])

(* A split whose groups are not restricted to the rows of their key. *)
MakeSplitWhole(df, t) ==
    LET keys == Unique(Column(df, t))
    IN [keys   |-> keys,
        groups |-> [k \in Range(keys) |-> [cols |-> df.cols, rows |-> df.rows]]]

(* make_split: one group per key of groupby(t), keys in sorted order, the  *)
(* rows of a group in their order in df.                                   *)
MakeSplit(df, t) ==
    LET keys == Unique(Column(df, t))
    IN [keys   |-> keys,
        groups |-> [k \in Range(keys) |-> [cols |-> df.cols, rows |-> Filter(df.rows, t, k)]]]

(* s[v].drop(highest_ig, axis=1) *)
RECURSIVE Without(_, _)
Without(q, a) ==
    IF q = <<>> THEN <<>>
    ELSE IF Head(q) = a THEN Without(Tail(q), a)
         ELSE <<Head(q)>> \o Without(Tail(q), a)

(* A drop that leaves the column in place. *)
DropKeep(df, a) == df

Drop(df, a) ==
    [cols |-> Without(df.cols, a),
     rows |-> [i \in 1..Len(df.rows) |->
                  [c \in (DOMAIN df.rows[i]) \ {a} |-> df.rows[i][c]]]]

(* value_counts().idxmax(): a value of maximal count.  pandas fixes no     *)
(* order among values of equal count (it is the order its hash table and   *)
(* numpy's default sort leave them in), so every such value is an outcome. *)
IdxMax(t) == {v \in Range(t) : \A w \in Range(t) : Count(t, w) <= Count(t, v)}

---------------------------------------------------------------------------
(* The tree: a dict {attribute: {value: branch}}; a branch is a dict or a  *)
(* decision value.                                                         *)

Leaf(v) == [leaf |-> TRUE, val |-> v, attr |-> "", kids |-> <<>>]

Node(a, kids) == [leaf |-> FALSE, val |-> None, attr |-> a, kids |-> kids]

NoTree == Node("", <<>>)

(* root[highest_ig][v] = branch *)
SetBranch(root, v, branch) == Node(root.attr, (v :> branch) @@ root.kids)

(* The body of id3 up to its loop. *)
NewFrame(df) ==
    LET attr       == df.cols
        ig         == [a \in Range(attr) |-> FindInformationGain(df, a)]
        highest_ig == HighestIG(attr, ig)
    IN [df |-> df, attr |-> attr, ig |-> ig, highest_ig |-> highest_ig,
        s |-> MakeSplit(df, highest_ig), root |-> Node(highest_ig, <<>>), i |-> 1]

(* A predictor that takes every branch for a decision value. *)
PredictDecisionFlat(tree, e) ==
    LET split == tree.attr
    IN IF e[split] \notin DOMAIN tree.kids THEN None
       ELSE tree.kids[e[split]].val

(* predict_decision *)
RECURSIVE PredictDecision(_, _)
PredictDecision(tree, e) ==
    LET split == tree.attr
    IN IF e[split] \notin DOMAIN tree.kids THEN None
       ELSE LET branch == tree.kids[e[split]]
            IN IF branch.leaf THEN branch.val ELSE PredictDecision(branch, e)

(* round(x, 1) of x = 100*correct/total, in tenths of a percent. *)
Round1(correct, total) ==
    LET q == (1000 * correct) \div total
        r == (1000 * correct) % total
    IN IF 2 * r < total THEN q
       ELSE IF 2 * r > total THEN q + 1
       ELSE IF q % 2 = 0 THEN q ELSE q + 1

(* find_accuracy: correct/total raises ZeroDivisionError when t is empty. *)
RECURSIVE Correct(_, _, _)
Correct(tree, t, k) ==
    IF k > Len(t.rows) THEN 0
    ELSE (IF t.rows[k][Target] = PredictDecision(tree, t.rows[k]) THEN 1 ELSE 0)
         + Correct(tree, t, k + 1)

(* An evaluator that takes a missing prediction for a correct one. *)
RECURSIVE CorrectLenient(_, _, _)
CorrectLenient(tree, t, k) ==
    IF k > Len(t.rows) THEN 0
    ELSE (IF PredictDecision(tree, t.rows[k]) \in {None, t.rows[k][Target]} THEN 1 ELSE 0)
         + CorrectLenient(tree, t, k + 1)

FindAccuracyLenient(tree, t) ==
    LET correct == CorrectLenient(tree, t, 1)
        total   == Len(t.rows)
    IN IF total = 0
       THEN [raised |-> TRUE, correct |-> correct, total |-> total, value |-> None]
       ELSE [raised |-> FALSE, correct |-> correct, total |-> total,
             value |-> Round1(correct, total)]

FindAccuracy(tree, t) ==
    LET correct == Correct(tree, t, 1)
        total   == Len(t.rows)
    IN IF total = 0
       THEN [raised |-> TRUE, correct |-> correct, total |-> total, value |-> None]
       ELSE [raised |-> FALSE, correct |-> correct, total |-> total,
             value |-> Round1(correct, total)]

---------------------------------------------------------------------------
(* The program. *)

TestTables(cols) == Tables(cols, 1)

InitWith(nfs, n) ==
    /\ \E nf \in nfs : \E k \in 0..n : \E r \in [1..k -> RowSet(Columns(nf))] :
          train = [cols |-> Columns(nf), rows |-> r]
    /\ test = [cols |-> train.cols, rows |-> <<>>]
    /\ pc = "start"
    /\ stack = <<>>
    /\ dt = NoTree
    /\ tr_ability = None
    /\ te_ability = None
    /\ counts = [correct |-> 0, total |-> 0]
    /\ err = "none"

Init == InitWith(1..Len(Schema), MaxRows)

InitDeep == InitWith(1..MaxFeatures, DeepRows)

Top == stack[Len(stack)]

Rest == SubSeq(stack, 1, Len(stack) - 1)

InLoop == pc = "id3" /\ stack # <<>> /\ Top.i <= Len(Top.s.keys)

CurKey(fr) == fr.s.keys[fr.i]

(* `return root`: the caller stores the result under the key it is at and  *)
(* goes on with its loop; the outermost call hands the tree to the main    *)
(* block.                                                                  *)
Return(root) ==
    IF Rest = <<>>
    THEN /\ dt' = root
         /\ stack' = <<>>
         /\ pc' = "train_acc"
    ELSE LET caller == Rest[Len(Rest)]
         IN /\ stack' = [Rest EXCEPT ![Len(Rest)] =
                            [caller EXCEPT !.root = SetBranch(caller.root, CurKey(caller), root),
                                           !.i = caller.i + 1]]
            /\ UNCHANGED <<dt, pc>>

(* dt = id3(train, decision_name, train.columns[:-1]) *)
CallId3 ==
    /\ pc = "start"
    /\ pc' = "id3"
    /\ stack' = <<NewFrame(train)>>
    /\ UNCHANGED <<train, test, dt, tr_ability, te_ability, counts, err>>

(* A pure group: a leaf. *)
LoopLeaf ==
    /\ InLoop
    /\ LET fr == Top
           v  == CurKey(fr)
       IN /\ IsZero(FindEntropy(Column(DfBranch(fr.df, fr.highest_ig, v), Target)))
          /\ \E d \in IdxMax(Column(fr.s.groups[v], Target)) :
                stack' = [stack EXCEPT ![Len(stack)] =
                             [fr EXCEPT !.root = SetBranch(fr.root, v, Leaf(d)),
                                        !.i = fr.i + 1]]
    /\ UNCHANGED <<pc, train, test, dt, tr_ability, te_ability, counts, err>>

(* An impure group and no attribute left: a leaf, then `return root`. *)
LoopMajority ==
    /\ InLoop
    /\ LET fr == Top
           v  == CurKey(fr)
       IN /\ ~IsZero(FindEntropy(Column(DfBranch(fr.df, fr.highest_ig, v), Target)))
          /\ Len(fr.attr) - 1 = 0
          /\ \E d \in IdxMax(Column(fr.s.groups[v], Target)) :
                Return(SetBranch(fr.root, v, Leaf(d)))
    /\ UNCHANGED <<train, test, tr_ability, te_ability, counts, err>>

(* An impure group and attributes left: the recursive call. *)
LoopRecurse ==
    /\ InLoop
    /\ LET fr == Top
           v  == CurKey(fr)
       IN /\ ~IsZero(FindEntropy(Column(DfBranch(fr.df, fr.highest_ig, v), Target)))
          /\ Len(fr.attr) - 1 # 0
          /\ stack' = Append(stack, NewFrame(Drop(fr.s.groups[v], fr.highest_ig)))
    /\ UNCHANGED <<pc, train, test, dt, tr_ability, te_ability, counts, err>>

(* The loop is over: `return root`. *)
LoopEnd ==
    /\ pc = "id3"
    /\ stack # <<>>
    /\ Top.i > Len(Top.s.keys)
    /\ Return(Top.root)
    /\ UNCHANGED <<train, test, tr_ability, te_ability, counts, err>>

(* tr_ability = find_accuracy(dt, train) *)
TrainAccuracy ==
    /\ pc = "train_acc"
    /\ LET r == FindAccuracy(dt, train)
       IN /\ counts' = [correct |-> r.correct, total |-> r.total]
          /\ IF r.raised
             THEN /\ err' = "ZeroDivisionError"
                  /\ pc' = "crashed"
                  /\ UNCHANGED tr_ability
             ELSE /\ tr_ability' = r.value
                  /\ pc' = "test_acc"
                  /\ UNCHANGED err
    /\ UNCHANGED <<train, test, stack, dt, te_ability>>

(* te_ability = find_accuracy(dt, test); the testing table is any table of *)
(* the training table's columns, read here where it is first used.         *)
TestAccuracy ==
    /\ pc = "test_acc"
    /\ \E t \in TestTables(train.cols) :
          /\ test' = t
          /\ LET r == FindAccuracy(dt, t)
             IN /\ counts' = [correct |-> r.correct, total |-> r.total]
                /\ IF r.raised
                   THEN /\ err' = "ZeroDivisionError"
                        /\ pc' = "crashed"
                        /\ UNCHANGED te_ability
                   ELSE /\ te_ability' = r.value
                        /\ pc' = "done"
                        /\ UNCHANGED err
    /\ UNCHANGED <<train, stack, dt, tr_ability>>

Next ==
    \/ CallId3
    \/ LoopLeaf
    \/ LoopMajority
    \/ LoopRecurse
    \/ LoopEnd
    \/ TrainAccuracy
    \/ TestAccuracy

Spec == Init /\ [][Next]_vars

SpecDeep == InitDeep /\ [][Next]_vars

---------------------------------------------------------------------------
(* Properties. *)

Built == pc \in {"train_acc", "test_acc", "done", "crashed"}

(* id3 has just returned the tree to the main block. *)
Returned == pc = "train_acc"

(* id3 has just been entered: the call on top of the stack has chosen its  *)
(* attribute and made its split, and has not begun its loop.               *)
Entered == pc = "id3" /\ stack # <<>> /\ Top.i = 1 /\ Top.root.kids = <<>>

Impure(df) == ~IsZero(FindEntropy(Column(df, Target)))

Frames == {stack[k] : k \in 1..Len(stack)}

(* Every value of the node's attribute in the node's sub-table has a child. *)
RECURSIVE Complete(_, _)
Complete(tree, df) ==
    \A v \in Range(Column(df, tree.attr)) :
        /\ v \in DOMAIN tree.kids
        /\ \/ tree.kids[v].leaf
           \/ Complete(tree.kids[v], Drop(DfBranch(df, tree.attr, v), tree.attr))

(* C1: once id3 has returned the tree of a table with at least one row,    *)
(* every decision node has a child for every value of its attribute that   *)
(* occurs in the sub-table the node was built from.                        *)
C1_EveryValueHasChild == (Built /\ train.rows # <<>>) => Complete(dt, train)

RECURSIVE NoRepeat(_, _)
NoRepeat(tree, used) ==
    /\ tree.attr \notin used
    /\ \A v \in DOMAIN tree.kids :
          tree.kids[v].leaf \/ NoRepeat(tree.kids[v], used \cup {tree.attr})

(* C2: no attribute is chosen twice along a path: a call never sees the    *)
(* column an enclosing call has split on, and in the returned tree no      *)
(* decision node carries the attribute of one of its ancestors.            *)
C2_NoAttributeTwice ==
    /\ \A j \in 1..Len(stack) : \A k \in 1..(j - 1) :
          /\ stack[k].highest_ig # stack[j].highest_ig
          /\ stack[k].highest_ig \notin Range(stack[j].df.cols)
    /\ \A fr \in Frames : NoRepeat(fr.root, {})
    /\ Built => NoRepeat(dt, {})

C2_Witness ==
    /\ pc = "done"
    /\ \E v \in DOMAIN dt.kids : ~dt.kids[v].leaf /\ dt.kids[v].kids # <<>>

(* The steps one call on c columns can still take, per key of its split. *)
RECURSIVE Weight(_)
Weight(c) == IF c <= 1 THEN 1 ELSE Cardinality(Vals) * Weight(c - 1) + 2

RECURSIVE Measure(_)
Measure(stk) ==
    IF stk = <<>> THEN 0
    ELSE LET k  == Len(stk)
             fr == stk[1]
             r  == Len(fr.s.keys) - fr.i + 1
         IN (IF k = 1 THEN r ELSE r - 1) * Weight(Len(fr.attr)) + 1 + Measure(Tail(stk))

StackShape ==
    /\ pc = "id3" => stack # <<>>
    /\ Len(stack) <= Len(train.cols)
    /\ \A k \in 1..Len(stack) :
          /\ Len(stack[k].attr) = Len(train.cols) - (k - 1)
          /\ Len(stack[k].attr) >= 1

(* C3: id3 terminates: the k-th nested call works on one column fewer than *)
(* the (k-1)-th and on at least one, the nesting is no deeper than the     *)
(* table has feature columns, and every step of id3 lowers a measure that  *)
(* is a natural number, so that only finitely many steps separate a call   *)
(* from its return.                                                        *)
C3_Terminates ==
    /\ []StackShape
    /\ [][pc = "id3" => Measure(stack') < Measure(stack)]_vars

C3_Witness == Len(stack) = Len(train.cols) /\ Len(stack) >= 2

(* The traversal of r ends at a leaf that was made from a pure group. *)
RECURSIVE EndsAtPureLeaf(_, _, _)
EndsAtPureLeaf(tree, df, r) ==
    LET v == r[tree.attr]
        g == DfBranch(df, tree.attr, v)
    IN /\ v \in DOMAIN tree.kids
       /\ IF tree.kids[v].leaf THEN ~Impure(g)
          ELSE EndsAtPureLeaf(tree.kids[v], g, r)

(* C4: a training row whose traversal ends at a leaf made from a pure      *)
(* group is predicted its own decision.                                    *)
C4_PureLeafCorrect ==
    Returned => \A i \in 1..Len(train.rows) :
                EndsAtPureLeaf(dt, train, train.rows[i])
                   => PredictDecision(dt, train.rows[i]) = train.rows[i][Target]

C4_Witness ==
    /\ Returned
    /\ \E i \in 1..Len(train.rows) :
          /\ EndsAtPureLeaf(dt, train, train.rows[i])
          /\ ~dt.kids[train.rows[i][dt.attr]].leaf

(* The traversal of e meets a decision node without a child for e's value. *)
RECURSIVE Misses(_, _)
Misses(tree, e) ==
    \/ e[tree.attr] \notin DOMAIN tree.kids
    \/ /\ ~tree.kids[e[tree.attr]].leaf
       /\ Misses(tree.kids[e[tree.attr]], e)

Scored == IF pc = "test_acc" \/ (pc = "crashed" /\ tr_ability = None) THEN train ELSE test

(* C5: a row that meets a decision node without a child for its value is   *)
(* predicted None, and find_accuracy counts it in total and not in correct.*)
C5_MissIsIncorrect ==
    pc \in {"test_acc", "done", "crashed"} =>
        LET t    == Scored
            miss == {i \in 1..Len(t.rows) : Misses(dt, t.rows[i])}
        IN /\ \A i \in miss : PredictDecision(dt, t.rows[i]) = None
           /\ counts.total = Len(t.rows)
           /\ counts.correct <= counts.total - Cardinality(miss)

C5_Witness ==
    /\ pc = "done"
    /\ Len(test.rows) = 1
    /\ Misses(dt, test.rows[1])
    /\ dt.kids # <<>>
    /\ counts = [correct |-> 0, total |-> 1]
    /\ te_ability = 0

Occ(rows, r) == Cardinality({i \in 1..Len(rows) : rows[i] = r})

RECURSIVE SumLens(_, _)
SumLens(keys, groups) ==
    IF keys = <<>> THEN 0
    ELSE Len(groups[Head(keys)].rows) + SumLens(Tail(keys), groups)

(* C6: the split a call of id3 has just made has one sub-table per         *)
(* distinct value of the attribute, every row of the call's table is in    *)
(* the sub-table of its value and in no other, the sizes add up, and the   *)
(* table that was split is still the table that was passed in.             *)
C6_SplitPartitions ==
    /\ Entered =>
          LET fr == Top
              a  == fr.highest_ig
          IN /\ Range(fr.s.keys) = Range(Column(fr.df, a))
             /\ DOMAIN fr.s.groups = Range(fr.s.keys)
             /\ Len(fr.s.keys) = Cardinality(Range(fr.s.keys))
             /\ SumLens(fr.s.keys, fr.s.groups) = Len(fr.df.rows)
             /\ \A i \in 1..Len(fr.df.rows) : \A k \in DOMAIN fr.s.groups :
                   Occ(fr.s.groups[k].rows, fr.df.rows[i]) =
                      IF k = fr.df.rows[i][a] THEN Occ(fr.df.rows, fr.df.rows[i]) ELSE 0
    /\ stack # <<>> => stack[1].df = train

C6_Witness == Entered /\ Len(Top.s.keys) = 2 /\ Len(Top.df.rows) = 3

(* C7: a call of find_entropy on an empty sequence and a call of           *)
(* find_accuracy on an empty table end in an error: once id3 has been      *)
(* called on an empty table (its first act is the entropy of the empty     *)
(* decision column) an error is signalled, and once an empty table has     *)
(* been scored an error is signalled.                                      *)
C7_EmptyFailsLoudly ==
    /\ (pc # "start" /\ train.rows = <<>>) => err # "none"
    /\ (pc = "done" /\ test.rows = <<>>) => err # "none"

E2ETable ==
    [cols |-> Schema,
     rows |-> << [F1 |-> 0, F2 |-> 0, D |-> 1], [F1 |-> 0, F2 |-> 1, D |-> 1],
                 [F1 |-> 1, F2 |-> 0, D |-> 0], [F1 |-> 1, F2 |-> 1, D |-> 0] >>]

(* C8: on the table (0,0,1),(0,1,1),(1,0,0),(1,1,0) id3 returns the        *)
(* decision on F1 with the leaves 0 -> 1 and 1 -> 0 and nothing else, and  *)
(* the accuracy on that table is 100.0.                                    *)
C8_EndToEnd ==
    (train = E2ETable /\ pc \in {"test_acc", "done", "crashed"}) =>
        /\ dt = Node("F1", (0 :> Leaf(1)) @@ (1 :> Leaf(0)))
        /\ tr_ability = 1000

C8_Witness == train = E2ETable /\ pc = "done"

Position(attr, a) == CHOOSE k \in 1..Len(attr) : attr[k] = a

(* C9: the attribute a call of id3 has just chosen has a gain no smaller   *)
(* than that of any column of the call's table, and a strictly greater     *)
(* gain than every column before it in the column order.                   *)
C9_HighestGainFirst ==
    Entered =>
        LET fr   == Top
            hi   == fr.highest_ig
            gain == [a \in Range(fr.df.cols) |-> FindInformationGain(fr.df, a)]
        IN /\ hi \in Range(fr.df.cols)
           /\ \A a \in Range(fr.df.cols) :
                 /\ ~Less(gain[hi], gain[a])
                 /\ Position(fr.df.cols, a) < Position(fr.df.cols, hi)
                       => Less(gain[a], gain[hi])

C9_Witness ==
    /\ Entered
    /\ LET fr == Top IN
        /\ Len(fr.df.cols) = 2
        /\ fr.highest_ig = fr.df.cols[1]
        /\ ~IsZero(FindInformationGain(fr.df, fr.df.cols[1]))
        /\ ~Less(FindInformationGain(fr.df, fr.df.cols[2]),
                 FindInformationGain(fr.df, fr.df.cols[1]))

(* The value of maximal count that occurs first in t. *)
FirstMostCommon(t) ==
    LET k == CHOOSE i \in 1..Len(t) :
                /\ t[i] \in IdxMax(t)
                /\ \A j \in 1..(i - 1) : t[j] \notin IdxMax(t)
    IN t[k]

RECURSIVE LastLevelFirst(_, _)
LastLevelFirst(tree, df) ==
    \A v \in DOMAIN tree.kids :
        LET g == DfBranch(df, tree.attr, v)
        IN IF Len(df.cols) = 1
           THEN Impure(g) => tree.kids[v] = Leaf(FirstMostCommon(Column(g, Target)))
           ELSE tree.kids[v].leaf \/ LastLevelFirst(tree.kids[v], Drop(g, tree.attr))

(* C10: the child made for an impure group of a split on the last column   *)
(* is a leaf with the group's most frequent decision, and of several most  *)
(* frequent ones the one that comes first in the group.                    *)
C10_MajorityFirst == Built => LastLevelFirst(dt, train)

=============================================================================
